---- MODULE Spec2Model ----
(***************************************************************************)
(* Model of the asset-maintenance batch scripts of UEPythonScripts         *)
(* (src/Assets/*.py).  Every script lists the assets under a working path, *)
(* then loops over the listing, calling the editor's asset library per     *)
(* item, polling the progress dialog for cancellation and advancing the    *)
(* progress bar.  The asset library itself (unreal.EditorAssetLibrary) is  *)
(* the host: it is modelled from the Repository interface of spec.md       *)
(* section 6, as a content repository of entries with a reference graph.   *)
(***************************************************************************)
EXTENDS Integers, Sequences, FiniteSets, TLC

VARIABLES
    assets,        \* repository: [Ids -> [exists, name, class, dir]]
    refs,          \* reference graph: set of <<holder, target>> pairs of ids
    locked,        \* entries whose package the host refuses to modify
    mesh_material, \* material in slot 0 of each entry (0: none), set by set_material
    instances,     \* material instances created by the asset tools
    two_sided,     \* materials and instances with the two-sided flag set
    masters_with_two_sided,   \* counter of the two-sided report
    instances_with_two_sided, \* counter of the two-sided report
    actors,        \* the actors of the level, each with its components
    kind,          \* which script is running ("none" before the first)
    status,        \* "Pending", "Running", "Completed", "Cancelled", "Failed"
    all_assets,    \* the listing taken by list_assets at the start of the script
    idx,           \* number of loop bodies executed over all_assets
    progress,      \* number of enter_progress_frame(1, ...) calls made
    matching,      \* matching_assets accumulated by the selected-asset scan
    selected,      \* selection handed to the interactively scoped scripts
    unused_assets, \* value returned by find_unused_assets
    log,           \* lines written by unreal.log / print, in order
    calls,         \* mutating host calls made by the running script, with results
    start,         \* repository as it was when the running script listed it
    prev,          \* kind, status and calls of the script that ran before
    runs           \* number of scripts started so far

report_vars == <<two_sided, masters_with_two_sided, instances_with_two_sided>>

vars == <<assets, refs, locked, mesh_material, instances, report_vars, actors,
          kind, status, all_assets, idx, progress, matching, selected,
          unused_assets, log, calls, start, prev, runs>>

(***************************************************************************)
(* Bounds of the model.                                                    *)
(***************************************************************************)
MaxAssets == 3
MaxRuns == 2

Ids == 1..MaxAssets

(***************************************************************************)
(* Strings are sequences of characters, so that startswith and             *)
(* concatenation are computed as Python computes them.                     *)
(***************************************************************************)
Rock == <<"r", "o", "c", "k">>
Tex == <<"t", "e", "x">>
Mat == <<"m", "a", "t">>
Underscore == <<"_">>
TexRock == Tex \o Underscore \o Rock
NoneName == <<"N", "o", "n", "e">>

Names == {Rock, TexRock}
Classes == {"Texture2D", "Material", "DataAsset"}

WORKING_PATH == <<"Game">>
ARCHIVE_PATH == <<"Game", "_ARCHIVE">>

PREFIXES ==
    ("AnimBlueprint" :> <<"a", "n", "i", "m", "B", "P">>)
    @@ ("AnimSequence" :> <<"a", "n", "i", "m">>)
    @@ ("Animation" :> <<"a", "n", "i", "m">>)
    @@ ("BlendSpace1D" :> <<"a", "n", "i", "m", "B", "l", "n", "d">>)
    @@ ("Blueprint" :> <<"b", "p">>)
    @@ ("CurveFloat" :> <<"c", "r", "v", "F">>)
    @@ ("CurveLinearColor" :> <<"c", "r", "v", "L">>)
    @@ ("Material" :> Mat)
    @@ ("MaterialFunction" :> <<"m", "a", "t", "_", "f", "u", "n", "c">>)
    @@ ("MaterialInstance" :> <<"m", "a", "t", "_", "i", "n", "s", "t">>)
    @@ ("ParticleSystem" :> <<"f", "x">>)
    @@ ("PhysicsAsset" :> <<"p", "h", "s", "x">>)
    @@ ("SkeletalMesh" :> <<"s", "k">>)
    @@ ("Skeleton" :> <<"s", "k", "l", "n">>)
    @@ ("SoundCue" :> <<"c", "u", "e">>)
    @@ ("SoundWave" :> <<"w", "v">>)
    @@ ("StaticMesh" :> <<"s", "m">>)
    @@ ("Texture2D" :> Tex)
    @@ ("TextureCube" :> <<"H", "D", "R", "I">>)

StartsWith(s, p) == Len(p) <= Len(s) /\ SubSeq(s, 1, Len(p)) = p

\* variant: an unknown class gets a default prefix instead of none
get_proper_prefix_Default(class_name) ==
    IF class_name \in DOMAIN PREFIXES THEN PREFIXES[class_name] ELSE Mat

get_proper_prefix(class_name) ==
    IF class_name \in DOMAIN PREFIXES THEN PREFIXES[class_name] ELSE <<>>

(***************************************************************************)
(* The host repository.                                                    *)
(***************************************************************************)
Gone == [exists |-> FALSE, name |-> NoneName, class |-> "None", dir |-> <<>>]
NonePath == [dir |-> <<>>, name |-> NoneName]

PathOf(A, i) == [dir |-> A[i].dir, name |-> A[i].name]

Existing(A) == {i \in Ids : A[i].exists}

\* id of the entry stored at path p, 0 when there is none
IdAt(A, p) ==
    IF \E i \in Existing(A) : PathOf(A, i) = p
    THEN CHOOSE i \in Existing(A) : PathOf(A, i) = p
    ELSE 0

RECURSIVE ListFrom(_, _, _)
ListFrom(A, scope, i) ==
    IF i > MaxAssets THEN <<>>
    ELSE (IF A[i].exists /\ StartsWith(A[i].dir, scope)
          THEN <<PathOf(A, i)>> ELSE <<>>) \o ListFrom(A, scope, i + 1)

\* list_assets(path, recursive=True, include_folder=False)
ListAssets(A, scope) == ListFrom(A, scope, 1)

\* find_asset_data(path): an invalid AssetData when nothing is stored at path
FindAssetData(A, p) ==
    LET i == IdAt(A, p) IN
    IF i = 0
    THEN [asset |-> 0, asset_name |-> NoneName, asset_class |-> "None",
          object_path |-> NonePath, package_path |-> <<>>]
    ELSE [asset |-> i, asset_name |-> A[i].name, asset_class |-> A[i].class,
          object_path |-> p, package_path |-> A[i].dir]

\* find_package_referencers_for_asset(path, load_assets=False)
Referencers(A, R, p) ==
    LET i == IdAt(A, p) IN
    IF i = 0 THEN {} ELSE {h \in Existing(A) : <<h, i>> \in R}

\* rename_asset(source, destination): rejected when the source is missing or
\* locked, or when the destination is already taken
RenameAsset(A, src, dst) ==
    LET i == IdAt(A, src) IN
    IF i = 0 \/ i \in locked \/ IdAt(A, dst) # 0
    THEN [ok |-> FALSE, id |-> i, assets |-> A]
    ELSE [ok |-> TRUE, id |-> i,
          assets |-> [A EXCEPT ![i].dir = dst.dir, ![i].name = dst.name]]

\* delete_asset(path): rejected when the entry is missing or locked
DeleteAsset(A, R, p) ==
    LET i == IdAt(A, p) IN
    IF i = 0 \/ i \in locked
    THEN [ok |-> FALSE, id |-> i, assets |-> A, refs |-> R]
    ELSE [ok |-> TRUE, id |-> i,
          assets |-> [A EXCEPT ![i] = Gone],
          refs |-> {e \in R : e[1] # i /\ e[2] # i}]

SeqToSet(s) == {s[k] : k \in 1..Len(s)}

\* a duplicate cannot be consolidated when it, or an entry holding a
\* reference to it, is locked: the reference cannot be repointed
RepointFails(R, d) == d \in locked \/ \E h \in locked : <<h, d>> \in R

\* consolidate_assets(asset_to_consolidate_to, assets_to_consolidate):
\* every reference that an entry outside the removed duplicates holds to one
\* of them is repointed to the canonical entry, a reference of the canonical
\* entry included, and the duplicate is removed with the references it held;
\* a duplicate whose repoint fails is left as it was
ConsolidateAssets(A, R, canonical, duplicates) ==
    LET D == SeqToSet(duplicates)
        removed == {d \in D : d # 0 /\ ~RepointFails(R, d)}
        repointed == {<<e[1], canonical>> :
                        e \in {x \in R : x[2] \in removed /\ x[1] \notin removed}}
        kept == {e \in R : e[1] \notin removed /\ e[2] \notin removed}
    IN
    IF canonical = 0 \/ 0 \in D
    THEN [ok |-> FALSE, assets |-> A, refs |-> R]
    ELSE [ok |-> removed = D,
          assets |-> [i \in Ids |-> IF i \in removed THEN Gone ELSE A[i]],
          refs |-> kept \cup repointed]

(***************************************************************************)
(* Records kept while a script runs.                                       *)
(***************************************************************************)
Line(at, msg, n) == [at |-> at, msg |-> msg, n |-> n]

Call(at, op, id, ok, to, dups) ==
    [at |-> at, op |-> op, id |-> id, ok |-> ok, to |-> to, dups |-> dups]

NoPrev == [kind |-> "none", status |-> "Pending", calls |-> <<>>]

Terminal == {"Completed", "Cancelled", "Failed"}

(***************************************************************************)
(* Initial repositories.  Two families: one varies the reference graph,    *)
(* the locks and the display names, every entry in a folder of its own;    *)
(* the other varies names, classes and folders of unreferenced entries.    *)
(***************************************************************************)
OwnFolder(i) == <<"Game", ToString(i)>>

Neighbours == {e \in Ids \X Ids : e[1] - e[2] \in {-1, 1}}

InitGraph ==
    /\ \E nm \in [Ids -> Names] :
         assets = [i \in Ids |-> [exists |-> TRUE, name |-> nm[i],
                                  class |-> "Material", dir |-> OwnFolder(i)]]
    /\ refs \in SUBSET Neighbours
    /\ locked \in {L \in SUBSET Ids : Cardinality(L) <= 1}
    /\ actors = <<>>

Folders == {WORKING_PATH, <<"Game", "Texture2D">>}

InitNames ==
    /\ \E nm \in [Ids -> Names], cl \in [Ids -> Classes], dr \in [Ids -> Folders] :
         /\ \A i, j \in Ids : i # j => <<dr[i], nm[i]>> # <<dr[j], nm[j]>>
         /\ assets = [i \in Ids |-> [exists |-> TRUE, name |-> nm[i],
                                     class |-> cl[i], dir |-> dr[i]]]
    /\ refs = {}
    /\ locked = {}
    /\ actors = <<>>

\* no script has run yet
InitRun ==
    /\ mesh_material = [i \in Ids |-> 0]
    /\ instances = {}
    /\ two_sided = {}
    /\ masters_with_two_sided = 0
    /\ instances_with_two_sided = 0
    /\ kind = "none"
    /\ status = "Pending"
    /\ all_assets = <<>>
    /\ idx = 0
    /\ progress = 0
    /\ matching = <<>>
    /\ selected = <<>>
    /\ unused_assets = <<>>
    /\ log = <<>>
    /\ calls = <<>>
    /\ start = [assets |-> assets, refs |-> refs]
    /\ prev = NoPrev
    /\ runs = 0

Init == (InitGraph \/ InitNames) /\ InitRun

(***************************************************************************)
(* Starting a script: list_assets, len, ScopedSlowTask.  The scripts with  *)
(* the guard "if all_assets_count > 0" return at once on an empty listing; *)
(* over an empty listing the loop of the others runs zero times.           *)
(***************************************************************************)
\* The sessions explored: a script is started on the initial repository, and
\* a script that ran to completion may be run again on what it left behind.
CanStart(k) ==
    /\ runs < MaxRuns
    /\ status = "Pending" \/ (status = "Completed" /\ kind = k)

Begin(k, listing) ==
    /\ kind' = k
    /\ all_assets' = listing
    /\ status' = IF Len(listing) > 0 THEN "Running" ELSE "Completed"
    /\ idx' = 0
    /\ progress' = 0
    /\ calls' = <<>>
    /\ start' = [assets |-> assets, refs |-> refs]
    /\ prev' = [kind |-> kind, status |-> status, calls |-> calls]
    /\ runs' = runs + 1

\* variant: a cancellation skips enter_progress_frame but the loop goes on
LoopTail_ContinueOnCancel(cancel) ==
    /\ idx' = idx + 1
    /\ progress' = IF cancel THEN progress ELSE progress + 1
    /\ status' = IF idx + 1 = Len(all_assets) THEN "Completed" ELSE "Running"

\* the end of a loop body: should_cancel() breaks out of the loop before
\* enter_progress_frame is reached
LoopTail(cancel) ==
    /\ idx' = idx + 1
    /\ progress' = IF cancel THEN progress ELSE progress + 1
    /\ status' = IF cancel THEN "Cancelled"
                 ELSE IF idx + 1 = Len(all_assets) THEN "Completed"
                 ELSE "Running"

(***************************************************************************)
(* ArchiveUnusedAssets.py                                                  *)
(***************************************************************************)
ArchiveItem(A, R, at, asset, archive_path) ==
    LET dependencies == Referencers(A, R, asset)
        asset_data == FindAssetData(A, asset)
        target_path_name == [dir |-> archive_path, name |-> asset_data.asset_name]
        res == RenameAsset(A, asset_data.object_path, target_path_name)
    IN
    IF dependencies = {}
    THEN [assets |-> res.assets, refs |-> R,
          log |-> <<Line(at, "archiving", 0), Line(at, "renamed", 0)>>,
          calls |-> <<Call(at, "rename", res.id, res.ok, target_path_name, <<>>)>>]
    ELSE [assets |-> A, refs |-> R, log |-> <<>>, calls |-> <<>>]

ArchiveStart ==
    /\ CanStart("archive")
    /\ Begin("archive", ListAssets(assets, WORKING_PATH))
    /\ log' = <<>>
    /\ UNCHANGED <<assets, refs, locked, report_vars, actors, mesh_material, instances,
                   matching, selected, unused_assets>>

ArchiveStep ==
    /\ kind = "archive" /\ status = "Running"
    /\ \E cancel \in BOOLEAN :
         LET r == ArchiveItem(assets, refs, idx + 1, all_assets[idx + 1], ARCHIVE_PATH)
         IN /\ assets' = r.assets
            /\ refs' = r.refs
            /\ log' = log \o r.log
            /\ calls' = calls \o r.calls
            /\ LoopTail(cancel)
    /\ UNCHANGED <<locked, report_vars, actors, mesh_material, instances,
                   kind, all_assets, matching, selected, unused_assets,
                   start, prev, runs>>

(***************************************************************************)
(* DeleteUnusedAssets.py                                                   *)
(***************************************************************************)
\* variant: the referencer test is dropped
DeleteItem_Unconditional(A, R, at, asset) ==
    LET res == DeleteAsset(A, R, asset)
    IN [assets |-> res.assets, refs |-> res.refs,
        log |-> <<Line(at, "deleting", 0)>>,
        calls |-> <<Call(at, "delete", res.id, res.ok, NonePath, <<>>)>>]

DeleteItem(A, R, at, asset) ==
    LET dependencies == Referencers(A, R, asset)
        res == DeleteAsset(A, R, asset)
    IN
    IF dependencies = {}
    THEN [assets |-> res.assets, refs |-> res.refs,
          log |-> <<Line(at, "deleting", 0)>>,
          calls |-> <<Call(at, "delete", res.id, res.ok, NonePath, <<>>)>>]
    ELSE [assets |-> A, refs |-> R, log |-> <<>>, calls |-> <<>>]

DeleteStart ==
    /\ CanStart("delete")
    /\ Begin("delete", ListAssets(assets, WORKING_PATH))
    /\ log' = <<>>
    /\ UNCHANGED <<assets, refs, locked, report_vars, actors, mesh_material, instances,
                   matching, selected, unused_assets>>

DeleteStep ==
    /\ kind = "delete" /\ status = "Running"
    /\ \E cancel \in BOOLEAN :
         LET r == DeleteItem(assets, refs, idx + 1, all_assets[idx + 1])
         IN /\ assets' = r.assets
            /\ refs' = r.refs
            /\ log' = log \o r.log
            /\ calls' = calls \o r.calls
            /\ LoopTail(cancel)
    /\ UNCHANGED <<locked, report_vars, actors, mesh_material, instances,
                   kind, all_assets, matching, selected, unused_assets,
                   start, prev, runs>>

(***************************************************************************)
(* ReportUnusedAssets.py                                                   *)
(***************************************************************************)
RECURSIVE UnusedFrom(_, _, _, _)
UnusedFrom(A, R, listing, k) ==
    IF k > Len(listing) THEN <<>>
    ELSE (IF Referencers(A, R, listing[k]) = {} THEN <<listing[k]>> ELSE <<>>)
         \o UnusedFrom(A, R, listing, k + 1)

RECURSIVE ReportLines(_, _)
ReportLines(unused, k) ==
    IF k > Len(unused) THEN <<>>
    ELSE <<Line(k, "unused", 0)>> \o ReportLines(unused, k + 1)

\* variant: every listed asset is returned
find_unused_assets_All(A, R, working_path) == ListAssets(A, working_path)

find_unused_assets(A, R, working_path) ==
    UnusedFrom(A, R, ListAssets(A, working_path), 1)

Report ==
    /\ CanStart("report")
    /\ LET listing == ListAssets(assets, WORKING_PATH)
           found == find_unused_assets(assets, refs, WORKING_PATH)
       IN /\ kind' = "report"
          /\ all_assets' = listing
          /\ status' = "Completed"
          /\ idx' = Len(listing)
          /\ progress' = 0
          /\ calls' = <<>>
          /\ start' = [assets |-> assets, refs |-> refs]
          /\ prev' = [kind |-> kind, status |-> status, calls |-> calls]
          /\ runs' = runs + 1
          /\ unused_assets' = found
          /\ log' = ReportLines(found, 1)
    /\ UNCHANGED <<assets, refs, locked, report_vars, actors, mesh_material, instances,
                   matching, selected>>

(***************************************************************************)
(* OrganizeAssetsPerType.py                                                *)
(***************************************************************************)
OrganizeItem(A, R, at, asset) ==
    LET asset_data == FindAssetData(A, asset)
        target_path_name == [dir |-> <<"Game", asset_data.asset_class>>,
                             name |-> asset_data.asset_name]
        res == RenameAsset(A, asset_data.object_path, target_path_name)
    IN [assets |-> res.assets, refs |-> R, log |-> <<>>,
        calls |-> <<Call(at, "rename", res.id, res.ok, target_path_name, <<>>)>>]

\* organize_assets_by_type(working_path), up to the loop
OrganizeBegin(working_path) ==
    /\ CanStart("organize")
    /\ Begin("organize", ListAssets(assets, working_path))
    /\ log' = <<>>
    /\ UNCHANGED <<assets, refs, locked, report_vars, actors, mesh_material, instances,
                   matching, selected, unused_assets>>

\* main: organize_assets_by_type(WORKING_PATH)
OrganizeStart == OrganizeBegin(WORKING_PATH)

\* organize_assets_by_type called on a folder below the content root
PROPS_PATH == <<"Game", "Props">>

OrganizeScopedStart == OrganizeBegin(PROPS_PATH)

OrganizeStep ==
    /\ kind = "organize" /\ status = "Running"
    /\ \E cancel \in BOOLEAN :
         LET r == OrganizeItem(assets, refs, idx + 1, all_assets[idx + 1])
         IN /\ assets' = r.assets
            /\ refs' = r.refs
            /\ log' = log \o r.log
            /\ calls' = calls \o r.calls
            /\ LoopTail(cancel)
    /\ UNCHANGED <<locked, report_vars, actors, mesh_material, instances,
                   kind, all_assets, matching, selected, unused_assets,
                   start, prev, runs>>

(***************************************************************************)
(* PrefixAllAssets.py                                                      *)
(***************************************************************************)
\* variant: the startswith test is dropped
PrefixItem_NoStartsWith(A, R, at, asset) ==
    LET asset_data == FindAssetData(A, asset)
        asset_prefix == get_proper_prefix(asset_data.asset_class)
        target_path_name == [dir |-> asset_data.package_path,
                             name |-> asset_prefix \o Underscore \o asset_data.asset_name]
        res == RenameAsset(A, asset_data.object_path, target_path_name)
    IN
    IF asset_prefix # <<>>
    THEN [assets |-> res.assets, refs |-> R,
          log |-> <<Line(at, "renaming", 0)>>,
          calls |-> <<Call(at, "rename", res.id, res.ok, target_path_name, <<>>)>>]
    ELSE [assets |-> A, refs |-> R, log |-> <<>>, calls |-> <<>>]

\* variant: the renamed asset is put in the working path's root folder
PrefixItem_ToRoot(A, R, at, asset) ==
    LET asset_data == FindAssetData(A, asset)
        asset_name == asset_data.asset_name
        asset_prefix == get_proper_prefix(asset_data.asset_class)
        new_asset_name == asset_prefix \o Underscore \o asset_name
        target_path_name == [dir |-> WORKING_PATH, name |-> new_asset_name]
        res == RenameAsset(A, asset_data.object_path, target_path_name)
    IN
    IF asset_prefix # <<>> /\ ~StartsWith(asset_name, asset_prefix)
    THEN [assets |-> res.assets, refs |-> R,
          log |-> <<Line(at, "renaming", 0)>>,
          calls |-> <<Call(at, "rename", res.id, res.ok, target_path_name, <<>>)>>]
    ELSE [assets |-> A, refs |-> R, log |-> <<>>, calls |-> <<>>]

PrefixItem(A, R, at, asset) ==
    LET asset_data == FindAssetData(A, asset)
        asset_name == asset_data.asset_name
        asset_prefix == get_proper_prefix(asset_data.asset_class)
        new_asset_name == asset_prefix \o Underscore \o asset_name
        target_path_name == [dir |-> asset_data.package_path, name |-> new_asset_name]
        res == RenameAsset(A, asset_data.object_path, target_path_name)
    IN
    IF asset_prefix # <<>> /\ ~StartsWith(asset_name, asset_prefix)
    THEN [assets |-> res.assets, refs |-> R,
          log |-> <<Line(at, "renaming", 0)>>,
          calls |-> <<Call(at, "rename", res.id, res.ok, target_path_name, <<>>)>>]
    ELSE [assets |-> A, refs |-> R, log |-> <<>>, calls |-> <<>>]

PrefixStart ==
    /\ CanStart("prefix")
    /\ Begin("prefix", ListAssets(assets, WORKING_PATH))
    /\ log' = <<>>
    /\ UNCHANGED <<assets, refs, locked, report_vars, actors, mesh_material, instances,
                   matching, selected, unused_assets>>

PrefixStep ==
    /\ kind = "prefix" /\ status = "Running"
    /\ \E cancel \in BOOLEAN :
         LET r == PrefixItem(assets, refs, idx + 1, all_assets[idx + 1])
         IN /\ assets' = r.assets
            /\ refs' = r.refs
            /\ log' = log \o r.log
            /\ calls' = calls \o r.calls
            /\ LoopTail(cancel)
    /\ UNCHANGED <<locked, report_vars, actors, mesh_material, instances,
                   kind, all_assets, matching, selected, unused_assets,
                   start, prev, runs>>

(***************************************************************************)
(* UnifyAllAssetsDuplicates.py                                             *)
(***************************************************************************)
\* variant: the processed asset is not excluded from its own matches
RECURSIVE MatchingFrom_IncludesSelf(_, _, _, _, _)
MatchingFrom_IncludesSelf(A, listing, name, path, k) ==
    IF k > Len(listing) THEN <<>>
    ELSE (IF FindAssetData(A, listing[k]).asset_name = name
          THEN <<FindAssetData(A, listing[k]).asset>> ELSE <<>>)
         \o MatchingFrom_IncludesSelf(A, listing, name, path, k + 1)

RECURSIVE MatchingFrom(_, _, _, _, _)
MatchingFrom(A, listing, name, path, k) ==
    IF k > Len(listing) THEN <<>>
    ELSE (IF FindAssetData(A, listing[k]).asset_name = name /\ listing[k] # path
          THEN <<FindAssetData(A, listing[k]).asset>> ELSE <<>>)
         \o MatchingFrom(A, listing, name, path, k + 1)

\* the host is handed None (id 0) for an entry that is no longer there
PassesNone(canonical, duplicates) == canonical = 0 \/ 0 \in SeqToSet(duplicates)

\* variant: an asset without duplicates is skipped without a line
UnifyItem_Silent(A, R, at, process_asset, listing) ==
    LET process_asset_data == FindAssetData(A, process_asset)
        matching_assets == MatchingFrom(A, listing, process_asset_data.asset_name,
                                        process_asset_data.object_path, 1)
        res == ConsolidateAssets(A, R, process_asset_data.asset, matching_assets)
    IN
    IF matching_assets # <<>>
    THEN [assets |-> res.assets, refs |-> res.refs,
          log |-> <<Line(at, "unify_completed", Len(matching_assets))>>,
          calls |-> <<Call(at, "consolidate", process_asset_data.asset, res.ok,
                           NonePath, matching_assets)>>,
          none |-> PassesNone(process_asset_data.asset, matching_assets)]
    ELSE [assets |-> A, refs |-> R, log |-> <<>>, calls |-> <<>>, none |-> FALSE]

UnifyItem(A, R, at, process_asset, listing) ==
    LET process_asset_data == FindAssetData(A, process_asset)
        matching_assets == MatchingFrom(A, listing, process_asset_data.asset_name,
                                        process_asset_data.object_path, 1)
        res == ConsolidateAssets(A, R, process_asset_data.asset, matching_assets)
    IN
    IF matching_assets # <<>>
    THEN [assets |-> res.assets, refs |-> res.refs,
          log |-> <<Line(at, "unify_completed", Len(matching_assets))>>,
          calls |-> <<Call(at, "consolidate", process_asset_data.asset, res.ok,
                           NonePath, matching_assets)>>,
          none |-> PassesNone(process_asset_data.asset, matching_assets)]
    ELSE [assets |-> A, refs |-> R,
          log |-> <<Line(at, "no_duplicates", 0)>>,
          calls |-> <<>>, none |-> FALSE]

UnifyStart ==
    /\ CanStart("unify")
    /\ Begin("unify", ListAssets(assets, WORKING_PATH))
    /\ log' = <<>>
    /\ UNCHANGED <<assets, refs, locked, report_vars, actors, mesh_material, instances,
                   matching, selected, unused_assets>>

\* consolidate_assets handed None either returns False or raises; an
\* exception is not caught and ends the script
UnifyStep ==
    /\ kind = "unify" /\ status = "Running"
    /\ LET r == UnifyItem(assets, refs, idx + 1, all_assets[idx + 1], all_assets)
       IN \E cancel \in BOOLEAN, raises \in {FALSE, r.none} :
            /\ assets' = r.assets
            /\ refs' = r.refs
            /\ calls' = calls \o r.calls
            /\ IF raises
               THEN /\ ~cancel
                    /\ log' = log
                    /\ idx' = idx + 1
                    /\ progress' = progress
                    /\ status' = "Failed"
               ELSE /\ log' = log \o r.log
                    /\ LoopTail(cancel)
    /\ UNCHANGED <<locked, report_vars, actors, mesh_material, instances,
                   kind, all_assets, matching, selected, unused_assets,
                   start, prev, runs>>

(***************************************************************************)
(* UnifyAssetDuplicates.py                                                 *)
(***************************************************************************)
Selections == {<<>>} \cup {<<i>> : i \in Existing(assets)}

\* lines 67-71: after the scan loop
UnifySelectedFinish(A, R, selected_asset, matching_assets) ==
    LET res == ConsolidateAssets(A, R, selected_asset, matching_assets)
    IN
    IF matching_assets # <<>>
    THEN [assets |-> res.assets, refs |-> res.refs,
          log |-> <<Line(0, "unify_completed", Len(matching_assets))>>,
          calls |-> <<Call(0, "consolidate", selected_asset, res.ok,
                           NonePath, matching_assets)>>]
    ELSE [assets |-> A, refs |-> R,
          log |-> <<Line(0, "no_duplicates", 0)>>, calls |-> <<>>]

\* lines 54-60: the body of the scan loop
UnifySelectedScan(A, at, asset, selected_asset, found) ==
    LET asset_data == FindAssetData(A, asset)
        asset_name == asset_data.asset_name
    IN
    IF asset_name = A[selected_asset].name /\ asset # PathOf(A, selected_asset)
    THEN [matching |-> Append(found, asset_data.asset),
          log |-> <<Line(at, "duplicate_found", 0)>>]
    ELSE [matching |-> found, log |-> <<>>]

UnifySelectedStart ==
    /\ CanStart("unify_selected")
    /\ \E sel \in Selections :
         LET listing == IF sel = <<>> THEN <<>> ELSE ListAssets(assets, WORKING_PATH)
         IN /\ selected' = sel
            /\ kind' = "unify_selected"
            /\ all_assets' = listing
            /\ status' = IF Len(listing) > 0 THEN "Running" ELSE "Completed"
            /\ log' = IF sel = <<>> THEN <<Line(0, "no_selection", 0)>>
                      ELSE IF Len(listing) = 0 THEN <<Line(0, "no_duplicates", 0)>>
                      ELSE <<>>
    /\ idx' = 0
    /\ progress' = 0
    /\ matching' = <<>>
    /\ calls' = <<>>
    /\ start' = [assets |-> assets, refs |-> refs]
    /\ prev' = [kind |-> kind, status |-> status, calls |-> calls]
    /\ runs' = runs + 1
    /\ UNCHANGED <<assets, refs, locked, report_vars, actors, mesh_material, instances,
                   unused_assets>>

UnifySelectedStep ==
    /\ kind = "unify_selected" /\ status = "Running"
    /\ \E cancel \in BOOLEAN :
         LET s == UnifySelectedScan(assets, idx + 1, all_assets[idx + 1],
                                    selected[1], matching)
             leaves == cancel \/ idx + 1 = Len(all_assets)
             f == UnifySelectedFinish(assets, refs, selected[1], s.matching)
         IN /\ matching' = s.matching
            /\ assets' = IF leaves THEN f.assets ELSE assets
            /\ refs' = IF leaves THEN f.refs ELSE refs
            /\ log' = log \o s.log \o (IF leaves THEN f.log ELSE <<>>)
            /\ calls' = calls \o (IF leaves THEN f.calls ELSE <<>>)
            /\ LoopTail(cancel)
    /\ UNCHANGED <<locked, report_vars, actors, mesh_material, instances,
                   kind, all_assets, selected, unused_assets,
                   start, prev, runs>>

(***************************************************************************)
(* Materials/AssignMaterialToAllSimilarNamedMeshes.py                      *)
(***************************************************************************)
MeshClasses == {"StaticMesh", "Material", "Texture2D"}

\* get_selected_assets(): nothing, one entry, or two distinct entries
AssetSelections ==
    {<<>>} \cup {<<i>> : i \in Existing(assets)}
           \cup {s \in Existing(assets) \X Existing(assets) : s[1] # s[2]}

\* mesh.set_material(0, material): only a static mesh has the method, and
\* it takes a material only; otherwise the call raises and sets nothing
SetMaterial(A, M, mesh, material) ==
    IF A[mesh].class # "StaticMesh" \/ A[material].class # "Material"
    THEN [raised |-> TRUE, mesh_material |-> M]
    ELSE [raised |-> FALSE, mesh_material |-> [M EXCEPT ![mesh] = material]]

\* lines 80-82: after the scan loop; an exception ends the script
RECURSIVE AssignMaterials(_, _, _, _, _)
AssignMaterials(A, M, matching_meshes, k, selected_material) ==
    IF k > Len(matching_meshes)
    THEN [mesh_material |-> M, log |-> <<>>, calls |-> <<>>, raised |-> FALSE]
    ELSE LET mesh == matching_meshes[k]
             res == SetMaterial(A, M, mesh, selected_material)
             rest == AssignMaterials(A, res.mesh_material, matching_meshes,
                                     k + 1, selected_material)
         IN IF res.raised
            THEN [mesh_material |-> M, log |-> <<>>, raised |-> TRUE,
                  calls |-> <<Call(0, "set_material", mesh, FALSE, NonePath,
                                   <<selected_material>>)>>]
            ELSE [mesh_material |-> rest.mesh_material,
                  log |-> <<Line(0, "assigned", mesh)>> \o rest.log,
                  raised |-> rest.raised,
                  calls |-> <<Call(0, "set_material", mesh, TRUE, NonePath,
                                   <<selected_material>>)>> \o rest.calls]

\* asset_class == selected_mesh_class (line 71): asset_data.asset_class is a
\* Name and selected_mesh.get_class() is a Class object; a Name is equal to
\* a Name or a string only, so the comparison is false for every pair
NameEqualsClass(asset_class, class_object) == FALSE

\* lines 66-73: the body of the scan loop
AssignScan(A, at, asset, selected_mesh, found) ==
    LET asset_data == FindAssetData(A, asset)
        asset_name == asset_data.asset_name
        asset_class == asset_data.asset_class
        selected_mesh_class == [class |-> A[selected_mesh].class]
    IN
    IF /\ asset_name = A[selected_mesh].name /\ asset # PathOf(A, selected_mesh)
       /\ NameEqualsClass(asset_class, selected_mesh_class)
    THEN [matching |-> Append(found, asset_data.asset),
          log |-> <<Line(at, "found_matching_mesh", 0)>>]
    ELSE [matching |-> found, log |-> <<>>]

\* variant: one selected entry is enough to go on
AssignStart_RequiresOne ==
    /\ CanStart("assign")
    /\ \E sel \in AssetSelections :
         LET few == Len(sel) < 1
             listing == IF few THEN <<>> ELSE ListAssets(assets, WORKING_PATH)
             empty == ~few /\ Len(listing) = 0
             f == AssignMaterials(assets, mesh_material, <<sel[1]>>, 1, sel[Len(sel)])
         IN /\ selected' = sel
            /\ kind' = "assign"
            /\ all_assets' = listing
            /\ matching' = IF few THEN <<>> ELSE <<sel[1]>>
            /\ mesh_material' = IF empty THEN f.mesh_material ELSE mesh_material
            /\ calls' = IF empty THEN f.calls ELSE <<>>
            /\ log' = IF few THEN <<Line(0, "error_select_mesh_and_material", 0)>>
                      ELSE IF empty THEN f.log ELSE <<>>
            /\ status' = IF few THEN "Completed"
                         ELSE IF ~empty THEN "Running"
                         ELSE IF f.raised THEN "Failed" ELSE "Completed"
    /\ idx' = 0
    /\ progress' = 0
    /\ start' = [assets |-> assets, refs |-> refs]
    /\ prev' = [kind |-> kind, status |-> status, calls |-> calls]
    /\ runs' = runs + 1
    /\ UNCHANGED <<assets, refs, locked, report_vars, actors, instances,
                   unused_assets>>

\* lines 46-60, up to the first item of the listing. The loop of lines
\* 65-78 has no guard on the count: with an empty listing its body never
\* runs and lines 80-82 assign the material to the selected mesh at once.
AssignStart ==
    /\ CanStart("assign")
    /\ \E sel \in AssetSelections :
         LET few == Len(sel) < 2
             listing == IF few THEN <<>> ELSE ListAssets(assets, WORKING_PATH)
             empty == ~few /\ Len(listing) = 0
             f == AssignMaterials(assets, mesh_material, <<sel[1]>>, 1, sel[2])
         IN /\ selected' = sel
            /\ kind' = "assign"
            /\ all_assets' = listing
            /\ matching' = IF few THEN <<>> ELSE <<sel[1]>>
            /\ mesh_material' = IF empty THEN f.mesh_material ELSE mesh_material
            /\ calls' = IF empty THEN f.calls ELSE <<>>
            /\ log' = IF few THEN <<Line(0, "error_select_mesh_and_material", 0)>>
                      ELSE IF empty THEN f.log ELSE <<>>
            /\ status' = IF few THEN "Completed"
                         ELSE IF ~empty THEN "Running"
                         ELSE IF f.raised THEN "Failed" ELSE "Completed"
    /\ idx' = 0
    /\ progress' = 0
    /\ start' = [assets |-> assets, refs |-> refs]
    /\ prev' = [kind |-> kind, status |-> status, calls |-> calls]
    /\ runs' = runs + 1
    /\ UNCHANGED <<assets, refs, locked, report_vars, actors, instances,
                   unused_assets>>

AssignStep ==
    /\ kind = "assign" /\ status = "Running"
    /\ \E cancel \in BOOLEAN :
         LET s == AssignScan(assets, idx + 1, all_assets[idx + 1],
                             selected[1], matching)
             leaves == cancel \/ idx + 1 = Len(all_assets)
             f == AssignMaterials(assets, mesh_material, s.matching, 1, selected[2])
         IN /\ matching' = s.matching
            /\ mesh_material' = IF leaves THEN f.mesh_material ELSE mesh_material
            /\ log' = log \o s.log \o (IF leaves THEN f.log ELSE <<>>)
            /\ calls' = calls \o (IF leaves THEN f.calls ELSE <<>>)
            /\ idx' = idx + 1
            /\ progress' = IF cancel THEN progress ELSE progress + 1
            /\ status' = IF leaves /\ f.raised THEN "Failed"
                         ELSE IF cancel THEN "Cancelled"
                         ELSE IF idx + 1 = Len(all_assets) THEN "Completed"
                         ELSE "Running"
    /\ UNCHANGED <<assets, refs, locked, report_vars, actors, instances, kind,
                   all_assets, selected,
                   unused_assets, start, prev, runs>>

(***************************************************************************)
(* Materials/CreateInstancesOfSelectedMaterial.py                          *)
(***************************************************************************)
TOTAL_REQUIRED_INSTANCES == 10

Inst == <<"_", "i", "n", "s", "t", "_">>
DigitChars == <<"0", "1", "2", "3", "4", "5", "6", "7", "8", "9">>

\* str(n) for a natural number n
RECURSIVE IntToStr(_)
IntToStr(n) ==
    IF n < 10 THEN <<DigitChars[n + 1]>>
    ELSE IntToStr(n \div 10) \o <<DigitChars[(n % 10) + 1]>>

\* the spelling of the folder names of the model
FolderChars ==
    ("Game" :> <<"G", "a", "m", "e">>)
    @@ ("_ARCHIVE" :> <<"_", "A", "R", "C", "H", "I", "V", "E">>)
    @@ ("Props" :> <<"P", "r", "o", "p", "s">>)
    @@ ("Old" :> <<"O", "l", "d">>)
    @@ ("rock" :> Rock)
    @@ ("Texture2D" :> <<"T", "e", "x", "t", "u", "r", "e", "2", "D">>)
    @@ ("Material" :> <<"M", "a", "t", "e", "r", "i", "a", "l">>)
    @@ ("DataAsset" :> <<"D", "a", "t", "a", "A", "s", "s", "e", "t">>)
    @@ [f \in {ToString(n) : n \in 1..9} |->
          IntToStr(CHOOSE n \in 1..9 : ToString(n) = f)]

\* "/Folder/.../Folder" for a sequence of folder names
RECURSIVE FolderPath(_)
FolderPath(dir) ==
    IF dir = <<>> THEN <<>>
    ELSE <<"/">> \o FolderChars[Head(dir)] \o FolderPath(Tail(dir))

\* get_path_name() of the asset: "/Folder/.../name.name"
GetPathName(A, i) ==
    FolderPath(A[i].dir) \o <<"/">> \o A[i].name \o <<".">> \o A[i].name

\* s.replace(old, ""): every occurrence of old is removed, left to right
RECURSIVE RemoveAll(_, _)
RemoveAll(s, old) ==
    IF old = <<>> \/ Len(s) < Len(old) THEN s
    ELSE IF StartsWith(s, old)
         THEN RemoveAll(SubSeq(s, Len(old) + 1, Len(s)), old)
         ELSE <<Head(s)>> \o RemoveAll(Tail(s), old)

\* s.rstrip(ch)
RECURSIVE RStrip(_, _)
RStrip(s, ch) ==
    IF s # <<>> /\ s[Len(s)] = ch THEN RStrip(SubSeq(s, 1, Len(s) - 1), ch)
    ELSE s

\* the folders named by a package path, empty segments dropped
RECURSIVE SplitPath(_, _)
SplitPath(path, segment) ==
    IF path = <<>> THEN (IF segment = <<>> THEN <<>> ELSE <<segment>>)
    ELSE IF Head(path) = "/"
         THEN (IF segment = <<>> THEN <<>> ELSE <<segment>>)
                 \o SplitPath(Tail(path), <<>>)
         ELSE SplitPath(Tail(path), Append(segment, Head(path)))

\* asset_tools.create_asset(name, path, None, factory): a material instance
\* without a parent, stored in the folder the package path names
CreateAsset(asset_name, package_path) ==
    [name |-> asset_name, dir |-> SplitPath(package_path, <<>>), parent |-> 0]

\* set_material_instance_parent(instance, new_parent)
SetMaterialInstanceParent(instance, new_parent) ==
    [instance EXCEPT !.parent = new_parent]

\* lines 51-58: the loop, from index i on
RECURSIVE CreateLoop(_, _, _, _, _)
CreateLoop(base_material, base_material_name, created_assets_path, i, instance_count) ==
    IF i >= instance_count
    THEN [instances |-> {}, log |-> <<>>, calls |-> <<>>]
    ELSE LET instance_name == base_material_name \o Inst \o IntToStr(i + 1)
             new_instance == CreateAsset(instance_name, created_assets_path)
             rest == CreateLoop(base_material, base_material_name,
                                created_assets_path, i + 1, instance_count)
         IN [instances |-> {SetMaterialInstanceParent(new_instance, base_material)}
                              \cup rest.instances,
             log |-> <<Line(i + 1, "created_instance", 0)>> \o rest.log,
             calls |-> <<Call(i + 1, "create", 0, TRUE,
                              [dir |-> created_assets_path, name |-> instance_name],
                              <<>>)>> \o rest.calls]

\* lines 45-58, the loop entered at index i
create_material_instances(A, base_material, i, instance_count) ==
    LET base_material_name == A[base_material].name
        base_material_path == GetPathName(A, base_material)
        created_assets_path ==
            RStrip(RemoveAll(base_material_path, base_material_name), ".")
    IN CreateLoop(base_material, base_material_name, created_assets_path, i,
                  instance_count)

\* main, lines 61-75.  The sessions explored create instances once: a run
\* follows only a run that created nothing.
CreateInstances ==
    /\ CanStart("create") /\ instances = {}
    /\ \E sel \in AssetSelections :
         LET made == create_material_instances(assets, sel[1], 0,
                                               TOTAL_REQUIRED_INSTANCES)
         IN /\ selected' = sel
            /\ IF sel = <<>>
               THEN /\ log' = <<Line(0, "error_no_material_selected", 0)>>
                    /\ UNCHANGED <<instances>>
                    /\ calls' = <<>>
               ELSE IF assets[sel[1]].class # "Material"
               THEN /\ log' = <<Line(0, "error_not_a_material", 0)>>
                    /\ UNCHANGED <<instances>>
                    /\ calls' = <<>>
               ELSE /\ log' = made.log
                    /\ instances' = made.instances
                    /\ calls' = made.calls
    /\ kind' = "create"
    /\ status' = "Completed"
    /\ all_assets' = <<>>
    /\ idx' = 0
    /\ progress' = 0
    /\ matching' = <<>>
    /\ start' = [assets |-> assets, refs |-> refs]
    /\ prev' = [kind |-> kind, status |-> status, calls |-> calls]
    /\ runs' = runs + 1
    /\ UNCHANGED <<assets, refs, locked, report_vars, actors, mesh_material, unused_assets>>

(***************************************************************************)
(* Materials/ReportTwoSidedMaterials.py                                    *)
(***************************************************************************)
MaterialInstanceClasses == {"MaterialInstance", "MaterialInstanceConstant"}

\* get_asset().get_editor_property("two_sided") of a master material, and
\* base_property_overrides.override_two_sided of a material instance
IsTwoSided(T, asset) == asset \in T

\* line 72: the summary line, with both counters
FoundLine(masters, insts) ==
    [at |-> 0, msg |-> "found_two_sided", n |-> masters, instances |-> insts]

\* lines 49-65: the body of the loop
TwoSidedItem(A, T, at, asset, masters, insts) ==
    LET asset_data == FindAssetData(A, asset)
        asset_class == asset_data.asset_class
    IN
    IF asset_class = "Material"
    THEN IF IsTwoSided(T, asset_data.asset)
         THEN [log |-> <<Line(at, "master_two_sided", 0)>>,
               masters |-> masters + 1, instances |-> insts]
         ELSE [log |-> <<Line(at, "master_ok", 0)>>,
               masters |-> masters, instances |-> insts]
    ELSE IF asset_class \in MaterialInstanceClasses
    THEN IF IsTwoSided(T, asset_data.asset)
         THEN [log |-> <<Line(at, "instance_two_sided", 0)>>,
               masters |-> masters, instances |-> insts + 1]
         ELSE [log |-> <<Line(at, "instance_ok", 0)>>,
               masters |-> masters, instances |-> insts]
    ELSE [log |-> <<>>, masters |-> masters, instances |-> insts]

\* the materials and material instances stored in repository A
MaterialsOf(A) ==
    {i \in Existing(A) : A[i].class \in {"Material"} \cup MaterialInstanceClasses}

\* lines 37-46; the flags are those the materials have when the script is
\* run, and the report is run once
TwoSidedStart ==
    /\ CanStart("two_sided") /\ status = "Pending"
    /\ Begin("two_sided", ListAssets(assets, WORKING_PATH))
    /\ two_sided' \in SUBSET MaterialsOf(assets)
    /\ masters_with_two_sided' = 0
    /\ instances_with_two_sided' = 0
    /\ log' = <<>>
    /\ UNCHANGED <<assets, refs, locked, actors, mesh_material, instances,
                   matching, selected, unused_assets>>

\* lines 48-72: one loop iteration; the summary line follows the loop
TwoSidedStep ==
    /\ kind = "two_sided" /\ status = "Running"
    /\ \E cancel \in BOOLEAN :
         LET r == TwoSidedItem(assets, two_sided, idx + 1, all_assets[idx + 1],
                               masters_with_two_sided, instances_with_two_sided)
             leaves == cancel \/ idx + 1 = Len(all_assets)
         IN /\ masters_with_two_sided' = r.masters
            /\ instances_with_two_sided' = r.instances
            /\ log' = log \o r.log
                          \o (IF leaves THEN <<FoundLine(r.masters, r.instances)>>
                              ELSE <<>>)
            /\ LoopTail(cancel)
    /\ UNCHANGED <<assets, refs, locked, actors, mesh_material, instances,
                   two_sided, kind, all_assets, matching, selected,
                   unused_assets, calls, start, prev, runs>>

(***************************************************************************)
(* Components/AccessAndModifyComponentsNew.py                              *)
(***************************************************************************)
Origin == <<0, 0, 0>>
Moved == <<1, 0, 0>>

\* lines 43-59, from component k on: a StaticMeshComponent is put at the
\* origin, any other component is left where it is
RECURSIVE ResetComponents(_, _)
ResetComponents(components, k) ==
    IF k > Len(components)
    THEN [components |-> components, log |-> <<>>]
    ELSE LET component == components[k]
             is_mesh == component.class = "StaticMeshComponent"
             moved == IF is_mesh
                      THEN [components EXCEPT ![k].location = Origin]
                      ELSE components
             rest == ResetComponents(moved, k + 1)
         IN [components |-> rest.components,
             log |-> <<Line(k, "checking_component", 0)>>
                     \o (IF is_mesh
                         THEN <<Line(k, "static_mesh_component_detected", 0),
                                Line(k, "original_location", 0),
                                Line(k, "updated_location", 0)>>
                         ELSE <<Line(k, "not_a_static_mesh_component", 0)>>)
                     \o rest.log]

\* lines 35-59, from selected actor k on; an actor without a root component
\* ends the script with an exception
RECURSIVE reset_static_mesh_component_locations(_, _, _)
reset_static_mesh_component_locations(level, selection, k) ==
    IF k > Len(selection)
    THEN [actors |-> level, log |-> <<>>, raised |-> FALSE]
    ELSE LET a == selection[k]
             actor == level[a]
             res == ResetComponents(actor.components, 1)
             rest == reset_static_mesh_component_locations(
                        [level EXCEPT ![a].components = res.components],
                        selection, k + 1)
             head == <<Line(k, "processing_actor", a), Line(k, "separator", 0)>>
         IN IF ~actor.root
            THEN [actors |-> level, log |-> head, raised |-> TRUE]
            ELSE [actors |-> rest.actors,
                  log |-> head
                          \o <<Line(k, "found_components", Len(actor.components))>>
                          \o res.log \o rest.log,
                  raised |-> rest.raised]

\* get_selection_set(): the selected actors, in level order
ActorSelections ==
    {<<>>} \cup {<<a>> : a \in 1..Len(actors)}
           \cup {s \in (1..Len(actors)) \X (1..Len(actors)) : s[1] < s[2]}

\* main, lines 62-66
ResetComponentLocations ==
    /\ CanStart("reset_components") /\ status = "Pending"
    /\ \E selection \in ActorSelections :
         LET r == reset_static_mesh_component_locations(actors, selection, 1)
         IN /\ actors' = r.actors
            /\ log' = r.log
            /\ status' = IF r.raised THEN "Failed" ELSE "Completed"
    /\ kind' = "reset_components"
    /\ all_assets' = <<>>
    /\ idx' = 0
    /\ progress' = 0
    /\ calls' = <<>>
    /\ start' = [assets |-> assets, refs |-> refs]
    /\ prev' = [kind |-> kind, status |-> status, calls |-> calls]
    /\ runs' = runs + 1
    /\ UNCHANGED <<assets, refs, locked, report_vars, mesh_material, instances,
                   matching, selected, unused_assets>>

Next ==
    \/ ArchiveStart
    \/ ArchiveStep
    \/ DeleteStart
    \/ DeleteStep
    \/ Report
    \/ OrganizeStart
    \/ OrganizeStep
    \/ PrefixStart
    \/ PrefixStep
    \/ UnifyStart
    \/ UnifyStep
    \/ UnifySelectedStart
    \/ UnifySelectedStep
    \/ TwoSidedStart
    \/ TwoSidedStep

Spec == Init /\ [][Next]_vars

(***************************************************************************)
(* The interactively scoped scripts, over repositories of meshes,          *)
(* materials and textures.                                                 *)
(***************************************************************************)
\* the first entry in a folder that has the name of an asset, every other
\* entry in a folder of its own; the content root is the working path or a
\* root outside it (the listing of the working path is then empty)
MeshRoots == {"Game", "Props"}

MeshFolder(root, i) == IF i = 1 THEN <<root, "rock">> ELSE <<root, ToString(i)>>

InitMeshes ==
    /\ \E nm \in [Ids -> Names], cl \in [Ids -> MeshClasses], root \in MeshRoots :
         assets = [i \in Ids |-> [exists |-> TRUE, name |-> nm[i],
                                  class |-> cl[i], dir |-> MeshFolder(root, i)]]
    /\ refs = {}
    /\ locked = {}
    /\ actors = <<>>

InitSelection == InitMeshes /\ InitRun

NextSelection ==
    \/ UnifySelectedStart
    \/ UnifySelectedStep
    \/ AssignStart
    \/ AssignStep
    \/ CreateInstances

SpecSelection == InitSelection /\ [][NextSelection]_vars

(***************************************************************************)
(* The orphan scripts, over repositories whose reference index lists an    *)
(* entry among its own referencers.                                        *)
(***************************************************************************)
Loops == {<<i, i>> : i \in Ids}

InitLoops ==
    /\ \E nm \in [Ids -> Names] :
         assets = [i \in Ids |-> [exists |-> TRUE, name |-> nm[i],
                                  class |-> "Material", dir |-> OwnFolder(i)]]
    /\ refs \in SUBSET (Neighbours \cup Loops)
    /\ locked = {}
    /\ actors = <<>>

InitSelf == InitLoops /\ InitRun

NextSelf ==
    \/ ArchiveStart
    \/ ArchiveStep
    \/ DeleteStart
    \/ DeleteStep
    \/ Report

SpecSelf == InitSelf /\ [][NextSelf]_vars

(***************************************************************************)
(* Reorganize-by-type called on a folder below the content root, over      *)
(* repositories with entries inside and outside that folder.               *)
(***************************************************************************)
ScopedFolders == {PROPS_PATH, PROPS_PATH \o <<"Old">>, WORKING_PATH}

InitFolders ==
    /\ \E nm \in [Ids -> Names], cl \in [Ids -> Classes],
          dr \in [Ids -> ScopedFolders] :
         /\ \A i, j \in Ids : i # j => <<dr[i], nm[i]>> # <<dr[j], nm[j]>>
         /\ assets = [i \in Ids |-> [exists |-> TRUE, name |-> nm[i],
                                     class |-> cl[i], dir |-> dr[i]]]
    /\ refs = {}
    /\ locked = {}
    /\ actors = <<>>

InitScoped == InitFolders /\ InitRun

NextScoped ==
    \/ OrganizeScopedStart
    \/ OrganizeStep

SpecScoped == InitScoped /\ [][NextScoped]_vars

(***************************************************************************)
(* The component script, over levels of up to two actors with up to two    *)
(* components each.                                                        *)
(***************************************************************************)
ComponentClasses == {"StaticMeshComponent", "SceneComponent"}

Components ==
    [class : ComponentClasses, location : {Origin, Moved}]

ComponentLists ==
    {<<>>} \cup {<<c>> : c \in Components} \cup (Components \X Components)

Actors == [root : BOOLEAN, components : ComponentLists]

InitLevel ==
    /\ actors \in {<<>>} \cup {<<a>> : a \in Actors} \cup (Actors \X Actors)
    /\ assets = [i \in Ids |-> [exists |-> TRUE, name |-> Rock,
                                class |-> "StaticMesh", dir |-> OwnFolder(i)]]
    /\ refs = {}
    /\ locked = {}

InitComponents == InitLevel /\ InitRun

NextComponents == ResetComponentLocations

SpecComponents == InitComponents /\ [][NextComponents]_vars

(***************************************************************************)
(* Properties.                                                             *)
(***************************************************************************)
\* host calls made by the step being taken
NewCalls ==
    IF Len(calls') > Len(calls)
    THEN {calls'[k] : k \in (Len(calls) + 1)..Len(calls')}
    ELSE {}

CallSet(cs) == {cs[k] : k \in 1..Len(cs)}

\* entries of repository A holding a reference to entry i
HoldersOf(A, R, i) == {h \in Ids : A[h].exists /\ <<h, i>> \in R}

Position(listing, p) == CHOOSE k \in 1..Len(listing) : listing[k] = p

\* C1: in the orphan-archive and orphan-delete scripts, every entry that a
\* step renames, deletes or passes to a mutating host call has no referencer
\* in the repository the step runs on; an entry with a referencer is left as
\* it is.
C1_OnlyOrphansMutated ==
    [][kind' \in {"archive", "delete"} =>
         \A i \in Ids :
            (assets'[i] # assets[i] \/ \E c \in NewCalls : c.id = i)
               => HoldersOf(assets, refs, i) = {}]_vars

\* C1 witness: a delete run has finished, it deleted an entry, and an entry
\* that had a referencer when the run started is still as it was.
C1_Witness ==
    /\ kind = "delete" /\ status = "Completed"
    /\ \E c \in CallSet(calls) : c.op = "delete" /\ c.ok
    /\ \E i \in Ids : /\ HoldersOf(start.assets, start.refs, i) # {}
                      /\ assets[i].exists /\ assets[i] = start.assets[i]

\* C2: find_unused_assets returns exactly the listed entries without a
\* referencer, each once and in listing order, and leaves the repository as
\* it found it.
C2_ReportIsOrphanSet ==
    kind = "report" =>
       /\ \A k \in 1..Len(all_assets) :
             (\E m \in 1..Len(unused_assets) : unused_assets[m] = all_assets[k])
                <=> HoldersOf(assets, refs, IdAt(assets, all_assets[k])) = {}
       /\ \A m \in 1..Len(unused_assets) :
             \E k \in 1..Len(all_assets) : unused_assets[m] = all_assets[k]
       /\ \A m, n \in 1..Len(unused_assets) :
             m < n => Position(all_assets, unused_assets[m])
                        < Position(all_assets, unused_assets[n])
       /\ assets = start.assets /\ refs = start.refs

\* C2 witness: a report over a listing with both orphans and referenced
\* entries.
C2_Witness ==
    /\ kind = "report"
    /\ Len(unused_assets) > 0
    /\ Len(unused_assets) < Len(all_assets)

SecondPrefixRun ==
    kind = "prefix" /\ prev.kind = "prefix" /\ prev.status = "Completed"

\* C3 as stated: a prefix-rename run that follows a completed prefix-rename
\* run issues no rename (checked on repositories without a locked package,
\* where the only rejection is an occupied target path).
C3_SecondRunIssuesNoRename ==
    (SecondPrefixRun /\ locked = {}) => calls = <<>>

\* C3 amended: a prefix-rename run that follows a completed prefix-rename run
\* issues a rename only for an entry whose rename the first run issued and the
\* host rejected; an entry the first run renamed, or left alone, is not renamed.
C3_SecondRunRenamesOnlyRejected ==
    SecondPrefixRun =>
       \A c \in CallSet(calls) :
          \E q \in CallSet(prev.calls) : q.id = c.id /\ ~q.ok

\* C3 witness: the first run renamed entries, none was rejected, and the second
\* run went over the whole listing without issuing a rename.
C3_Witness ==
    /\ SecondPrefixRun /\ status = "Completed"
    /\ prev.calls # <<>>
    /\ \A q \in CallSet(prev.calls) : q.ok
    /\ calls = <<>>
    /\ Len(all_assets) = MaxAssets

RenameScripts == {"archive", "organize", "prefix"}
BatchLoops == {"archive", "delete", "organize", "prefix", "unify", "two_sided"}

LinesAt(at) == {log[k] : k \in {m \in 1..Len(log) : log[m].at = at}}

\* a rename rejected because another entry is stored at its target path
IsConflict(c) ==
    /\ c.op = "rename" /\ ~c.ok /\ c.id # 0
    /\ IdAt(assets, c.to) \notin {0, c.id}

\* C4 as stated: in archive, reorganize-by-type and prefix-rename, a rename
\* whose target path names another entry overwrites nothing, both entries are
\* still there, and the item is reported as a rename conflict instead of being
\* logged as renamed.
C4_ConflictSkippedAndReported ==
    kind \in RenameScripts =>
       \A c \in CallSet(calls) :
          IsConflict(c) =>
             /\ assets[c.id].exists /\ assets[IdAt(assets, c.to)].exists
             /\ \E l \in LinesAt(c.at) : l.msg = "rename_conflict"
             /\ \A l \in LinesAt(c.at) : l.msg \notin {"renamed", "renaming"}

\* what a successful consolidate call c leaves of its duplicates: the
\* canonical entry exists, no duplicate exists or is listed, and no
\* reference mentions a duplicate
DuplicatesGone(c) ==
    LET D == SeqToSet(c.dups) IN
    /\ c.id \notin D /\ assets'[c.id].exists
    /\ \A d \in D :
          /\ ~assets'[d].exists
          /\ PathOf(assets, d) \notin SeqToSet(ListAssets(assets', WORKING_PATH))
          /\ \A e \in refs' : e[1] # d /\ e[2] # d

\* C5 as stated: when a consolidate call made by either unification script
\* succeeds, then right after it the canonical entry exists, no duplicate
\* exists or is listed, no reference mentions a duplicate, and every
\* reference there was to a duplicate, whoever held it, is now a reference
\* of the same holder to the canonical entry.
C5_EveryPriorReferenceRepointed ==
    [][\A c \in NewCalls :
          (c.op = "consolidate" /\ c.ok) =>
             /\ DuplicatesGone(c)
             /\ \A e \in refs :
                   e[2] \in SeqToSet(c.dups) => <<e[1], c.id>> \in refs']_vars

\* C5 amended: when a consolidate call made by either unification script
\* succeeds, then right after it the canonical entry exists, no duplicate
\* exists or is listed, no reference mentions a duplicate, and every
\* reference that an entry outside the duplicate set, the canonical entry
\* included, held to a duplicate is now a reference of that holder to the
\* canonical entry; a reference one duplicate held to another is gone with
\* its holder.
C5_ConsolidationSafety ==
    [][\A c \in NewCalls :
          (c.op = "consolidate" /\ c.ok) =>
             /\ DuplicatesGone(c)
             /\ \A e \in refs :
                   (e[2] \in SeqToSet(c.dups) /\ e[1] \notin SeqToSet(c.dups))
                      => <<e[1], c.id>> \in refs']_vars

\* C5 witness: a unify-all run made a successful consolidate call on a
\* duplicate set in which one duplicate referenced another, and the call
\* repointed to the canonical entry a reference held from outside the set.
C5_Witness ==
    /\ kind = "unify"
    /\ \E c \in CallSet(calls) :
          /\ c.op = "consolidate" /\ c.ok
          /\ \E e \in start.refs :
                /\ e[2] \in SeqToSet(c.dups) /\ e[1] \notin SeqToSet(c.dups)
                /\ <<e[1], c.id>> \in refs
                /\ <<e[1], c.id>> \notin start.refs
          /\ \E e \in start.refs :
                e[1] \in SeqToSet(c.dups) /\ e[2] \in SeqToSet(c.dups)

\* C6 as stated: a consolidate call in which the repoint of a duplicate failed
\* leaves that duplicate in place, is reported as a failure for the item, and
\* is not reported as completed (checked on runs that were not cancelled).
C6_FailedRepointNotReportedCompleted ==
    \A c \in CallSet(calls) :
       (/\ c.op = "consolidate" /\ ~c.ok /\ ~PassesNone(c.id, c.dups)
        /\ status # "Cancelled") =>
          /\ \E d \in SeqToSet(c.dups) : assets[d].exists
          /\ \A l \in LinesAt(c.at) : l.msg # "unify_completed"
          /\ \E l \in LinesAt(c.at) : l.msg = "failed"

\* C7 as stated: a batch loop that stops on cancellation has advanced the
\* progress by as many units as it has processed items.
C7_CancelledProgressEqualsProcessed ==
    (kind \in BatchLoops /\ status = "Cancelled") => progress = idx

(***************************************************************************)
(* The plan of a batch: the operations of sections 4.2 to 4.5 decided on   *)
(* the listing snapshot, one at most per listed entry, in listing order.   *)
(***************************************************************************)
NoOp == [op |-> "none", path |-> NonePath, to |-> NonePath, canonical |-> 0,
         dups |-> <<>>]

\* is_orphan on the snapshot: no referencer other than the entry itself
SnapshotOrphan(A, R, i) == HoldersOf(A, R, i) \ {i} = {}

\* the listed entries of the snapshot that have the given display name
RECURSIVE SameNamedFrom(_, _, _, _)
SameNamedFrom(A, listing, name, k) ==
    IF k > Len(listing) THEN <<>>
    ELSE (IF A[IdAt(A, listing[k])].name = name
          THEN <<IdAt(A, listing[k])>> ELSE <<>>)
         \o SameNamedFrom(A, listing, name, k + 1)

\* the operation planned for the n-th listed entry of snapshot (A, R)
PlannedOp(k, A, R, listing, n) ==
    LET path == listing[n]
        i == IdAt(A, path)
        prefix == get_proper_prefix(A[i].class)
        group == SameNamedFrom(A, listing, A[i].name, 1)
        Rename(to) == [NoOp EXCEPT !.op = "rename", !.path = path, !.to = to]
    IN
    CASE k = "archive" ->
           IF SnapshotOrphan(A, R, i)
           THEN Rename([dir |-> ARCHIVE_PATH, name |-> A[i].name]) ELSE NoOp
      [] k = "delete" ->
           IF SnapshotOrphan(A, R, i)
           THEN [NoOp EXCEPT !.op = "delete", !.path = path] ELSE NoOp
      [] k = "organize" ->
           Rename([dir |-> WORKING_PATH \o <<A[i].class>>, name |-> A[i].name])
      [] k = "prefix" ->
           IF prefix # <<>> /\ ~StartsWith(A[i].name, prefix)
           THEN Rename([dir |-> A[i].dir,
                        name |-> prefix \o Underscore \o A[i].name])
           ELSE NoOp
      [] k = "unify" ->
           IF group[1] = i /\ Len(group) > 1
           THEN [NoOp EXCEPT !.op = "consolidate", !.canonical = i,
                             !.dups = Tail(group)]
           ELSE NoOp
      [] OTHER -> NoOp

\* one planned operation carried out whole by the repository
ApplyOp(A, R, o) ==
    CASE o.op = "rename" ->
           [assets |-> RenameAsset(A, o.path, o.to).assets, refs |-> R]
      [] o.op = "delete" ->
           LET r == DeleteAsset(A, R, o.path)
           IN [assets |-> r.assets, refs |-> r.refs]
      [] o.op = "consolidate" ->
           LET r == ConsolidateAssets(A, R, o.canonical, o.dups)
           IN [assets |-> r.assets, refs |-> r.refs]
      [] OTHER -> [assets |-> A, refs |-> R]

\* the repository after the operations planned on snapshot (A0, R0) for
\* the first n listed entries have been carried out in order
RECURSIVE ApplyPlan(_, _, _, _, _)
ApplyPlan(k, A0, R0, listing, n) ==
    IF n = 0 THEN [assets |-> A0, refs |-> R0]
    ELSE LET p == ApplyPlan(k, A0, R0, listing, n - 1)
         IN ApplyOp(p.assets, p.refs, PlannedOp(k, A0, R0, listing, n))

\* the repository is what some prefix of the plan of this run leaves
IsPrefixOfPlan ==
    \E n \in 0..Len(all_assets) :
       LET done == ApplyPlan(kind, start.assets, start.refs, all_assets, n)
       IN assets = done.assets /\ refs = done.refs

\* every listed entry after the idx-th is as it was when the listing was taken
LaterItemsUntouched ==
    \A j \in (idx + 1)..Len(all_assets) :
       LET i == IdAt(start.assets, all_assets[j])
       IN assets[i] = start.assets[i]

\* C8 as stated: when a batch loop is cancelled after item k of n, every
\* listed item after the k-th is as it was when the listing was taken, and
\* the repository is the result of carrying out, whole and in order, a
\* prefix of the operations planned on the listing snapshot (so nothing
\* applied is rolled back and no operation is half applied).
C8_CancelLeavesPlanPrefix ==
    (kind \in BatchLoops /\ status = "Cancelled") =>
       /\ LaterItemsUntouched
       /\ IsPrefixOfPlan

StartOrphan(i) ==
    start.assets[i].exists /\ HoldersOf(start.assets, start.refs, i) = {}

ArchiveTarget(i) == [dir |-> ARCHIVE_PATH, name |-> start.assets[i].name]

Archived(i) ==
    /\ assets[i] = [start.assets[i] EXCEPT !.dir = ARCHIVE_PATH]
    /\ start.assets[i].dir # ARCHIVE_PATH

Count(msg) == Cardinality({k \in 1..Len(log) : log[k].msg = msg})

\* C9 as stated: a completed orphan-archive run has moved every orphan to
\* archive_root/name, left every referenced entry where it was, logged as many
\* renames as entries were archived, and had no failure (checked on
\* repositories without a locked package).
C9_EveryOrphanArchived ==
    (kind = "archive" /\ status = "Completed" /\ locked = {}) =>
       /\ \A i \in Existing(start.assets) :
             IF StartOrphan(i) THEN PathOf(assets, i) = ArchiveTarget(i)
             ELSE assets[i] = start.assets[i]
       /\ Count("renamed") = Cardinality({i \in Ids : Archived(i)})
       /\ \A c \in CallSet(calls) : c.ok

\* C10 as stated: whenever a host call made for an item fails, the failure is
\* recorded against that item and the script goes on: it is never ended by
\* the failure (checked on repositories without a locked package).
C10_FailureRecordedAndIsolated ==
    locked = {} =>
       /\ status # "Failed"
       /\ \A c \in CallSet(calls) :
             ~c.ok => \E l \in LinesAt(c.at) : l.msg = "failed"

\* an entry of the rule table's classes whose name lacks the class prefix
IsCandidate(A, i) ==
    /\ i # 0 /\ A[i].exists
    /\ A[i].class \in DOMAIN PREFIXES
    /\ PREFIXES[A[i].class] # <<>>
    /\ ~StartsWith(A[i].name, PREFIXES[A[i].class])

\* C13: a step of the prefix-rename loop issues a rename for the entry it
\* processes exactly when that entry's class has a non-empty prefix in the
\* table and its name does not start with it; an entry of a class without a
\* rule, or with a compliant name, is left as it is, and the step raises no
\* error.
C13_OnlyCandidatesRenamed ==
    [][(kind = "prefix" /\ status = "Running" /\ idx' = idx + 1) =>
         LET i == IdAt(assets, all_assets[idx + 1]) IN
         /\ status' # "Failed"
         /\ (NewCalls # {}) <=> IsCandidate(assets, i)
         /\ \A c \in NewCalls : c.op = "rename" /\ c.id = i
         /\ \A j \in Ids : assets'[j] # assets[j] => (j = i /\ IsCandidate(assets, i))
         /\ refs' = refs]_vars

\* C13 witness: a completed prefix-rename run that renamed an entry and left
\* alone both an entry of a class without a rule and an entry whose name
\* already had its prefix.
C13_Witness ==
    /\ kind = "prefix" /\ status = "Completed" /\ prev.kind = "none"
    /\ \E c \in CallSet(calls) : c.ok
    /\ \E i \in Ids : /\ start.assets[i].class \notin DOMAIN PREFIXES
                      /\ assets[i] = start.assets[i]
    /\ \E i \in Ids : /\ start.assets[i].class = "Texture2D"
                      /\ start.assets[i].name = TexRock
                      /\ assets[i] = start.assets[i]

\* the entry listed at position k when the listing was taken
ListedAt(k) == IdAt(start.assets, all_assets[k])

ListedIds == {ListedAt(k) : k \in 1..Len(all_assets)}

\* the listed entries that share the display name of entry i
StartGroup(i) == {j \in ListedIds : start.assets[j].name = start.assets[i].name}

FirstOf(G) == CHOOSE i \in G : \A j \in G :
                 Position(all_assets, PathOf(start.assets, i))
                    <= Position(all_assets, PathOf(start.assets, j))

ConsolidateCalls == {k \in 1..Len(calls) : calls[k].op = "consolidate"}

\* C14 as stated: a completed unification run has issued exactly one
\* consolidate per display-name group of more than one listed entry (for the
\* selected-asset script: for the group of the selected entry), with the
\* selected entry, or else the first member in listing order, as canonical and
\* all other members, never the canonical, as duplicates (checked on
\* repositories without a locked package).
C14_OneConsolidatePerGroup ==
    (kind \in {"unify", "unify_selected"} /\ status = "Completed"
       /\ locked = {} /\ all_assets # <<>>) =>
       /\ \A k \in ConsolidateCalls :
             LET c == calls[k] IN
             /\ c.id \in ListedIds
             /\ Cardinality(StartGroup(c.id)) > 1
             /\ c.id = (IF kind = "unify_selected" THEN selected[1]
                        ELSE FirstOf(StartGroup(c.id)))
             /\ SeqToSet(c.dups) = StartGroup(c.id) \ {c.id}
       /\ \A i \in ListedIds :
             (/\ Cardinality(StartGroup(i)) > 1
              /\ kind = "unify_selected" => i = selected[1])
                => Cardinality({k \in ConsolidateCalls :
                                   calls[k].id \in StartGroup(i)}) = 1

\* C15: an entry whose display name no other listed entry shares gets no
\* consolidate call, stays as it was, and gets a "no duplicates found" line:
\* in unify-all when the loop has processed it, in the selected-asset script
\* when it is the selected entry and the script has ended.
C15_SingletonReported ==
    /\ kind = "unify" =>
          \A k \in 1..idx :
             Cardinality(StartGroup(ListedAt(k))) = 1 =>
                /\ \E l \in LinesAt(k) : l.msg = "no_duplicates"
                /\ \A c \in CallSet(calls) :
                      c.at # k /\ c.id # ListedAt(k)
                         /\ ListedAt(k) \notin SeqToSet(c.dups)
                /\ assets[ListedAt(k)] = start.assets[ListedAt(k)]
    /\ (kind = "unify_selected" /\ status \in Terminal /\ selected # <<>>
          /\ Cardinality(StartGroup(selected[1])) = 1) =>
          /\ calls = <<>>
          /\ \E l \in LinesAt(0) : l.msg = "no_duplicates"
          /\ assets = start.assets /\ refs = start.refs

\* C15 witness: a completed unify-all run that consolidated a group and
\* reported "no duplicates found" for an entry with a name of its own.
C15_Witness ==
    /\ kind = "unify" /\ status = "Completed"
    /\ \E c \in CallSet(calls) : c.op = "consolidate" /\ c.ok
    /\ \E k \in 1..Len(all_assets) :
          /\ Cardinality(StartGroup(ListedAt(k))) = 1
          /\ \E l \in LinesAt(k) : l.msg = "no_duplicates"

\* C16 as stated: in a completed orphan-delete or orphan-archive run the
\* entries the run issued a rename or delete for are exactly the entries
\* without a referencer when the listing was taken, and every entry that had
\* a referencer then is as it was (checked on repositories without a locked
\* package).
C16_MutatedAreStartOrphans ==
    (kind \in {"archive", "delete"} /\ status = "Completed" /\ locked = {}) =>
       /\ {c.id : c \in CallSet(calls)} = {i \in ListedIds : StartOrphan(i)}
       /\ \A i \in ListedIds : ~StartOrphan(i) => assets[i] = start.assets[i]

\* C18 as stated: a batch loop over at least one item whose first
\* cancellation poll returns true ends as cancelled without having applied a
\* rename, delete or consolidate to any item.
C18_CancelBeforeFirstItem ==
    (kind \in BatchLoops /\ status = "Cancelled" /\ idx = 1) =>
       /\ calls = <<>>
       /\ assets = start.assets /\ refs = start.refs

\* C19 as stated: after a completed unify-all run, of every display-name
\* group of more than one listed entry exactly the first entry remains; no
\* consolidate was issued for a listing item that an earlier consolidate had
\* named as a duplicate, and no entry that served as canonical was later
\* passed as a duplicate.
C19_StaleListingSafe ==
    (kind = "unify" /\ status = "Completed" /\ all_assets # <<>>) =>
       /\ \A i \in ListedIds :
             Cardinality(StartGroup(i)) > 1 =>
                {j \in StartGroup(i) : assets[j].exists} = {FirstOf(StartGroup(i))}
       /\ \A k, m \in ConsolidateCalls :
             m < k => /\ ListedAt(calls[k].at) \notin SeqToSet(calls[m].dups)
                      /\ calls[m].id \notin SeqToSet(calls[k].dups)

\* the selection is shorter than the running script requires
TooFewSelected ==
    \/ kind \in {"unify_selected", "create"} /\ selected = <<>>
    \/ kind = "assign" /\ Len(selected) < 2

\* C11: a step that starts selected-asset unification or material-instance
\* creation on an empty selection, or material-to-mesh assignment on fewer
\* than two selected entries, takes no listing, makes no consolidate,
\* set_material or create call, and leaves the repository, the material
\* slots and the created instances as they were.
C11_TooFewSelectedAborts ==
    [][TooFewSelected' =>
          /\ all_assets' = <<>>
          /\ calls' = <<>>
          /\ assets' = assets /\ refs' = refs
          /\ mesh_material' = mesh_material /\ instances' = instances]_vars

\* C11 witness: material-to-mesh assignment was run with one selected entry
\* and stopped at the error message, nothing listed and nothing called.
C11_Witness ==
    /\ kind = "assign" /\ Len(selected) = 1 /\ status = "Completed"
    /\ log = <<Line(0, "error_select_mesh_and_material", 0)>>
    /\ all_assets = <<>> /\ calls = <<>>

\* a selected entry is of the wrong type for the running script
WrongTypeSelected ==
    \/ /\ kind = "create" /\ selected # <<>>
       /\ assets[selected[1]].class # "Material"
    \/ /\ kind = "assign" /\ Len(selected) >= 2
       /\ \/ assets[selected[1]].class # "StaticMesh"
          \/ assets[selected[2]].class # "Material"

PreconditionLines ==
    {"error_no_material_selected", "error_not_a_material",
     "error_select_mesh_and_material"}

\* C12 as stated: when a selected entry has the wrong type, instance creation
\* and material-to-mesh assignment end with a precondition failure reported
\* and nothing scanned or changed: no material slot set, no instance created.
C12_WrongTypeIsPreconditionFailure ==
    (WrongTypeSelected /\ status \in Terminal) =>
       /\ \E k \in 1..Len(log) : log[k].msg \in PreconditionLines
       /\ idx = 0
       /\ mesh_material = [i \in Ids |-> 0] /\ instances = {}

\* C17 as stated: when selected-asset unification or material-to-mesh
\* assignment ends cancelled, no consolidate and no set_material call was made.
C17_CancelledScanMutatesNothing ==
    (kind \in {"unify_selected", "assign"} /\ status = "Cancelled") =>
       calls = <<>>

\* an entry that, when the running script listed the repository, was its own
\* only referencer
SelfOnly(i) ==
    /\ start.assets[i].exists
    /\ HoldersOf(start.assets, start.refs, i) = {i}

\* C20 as stated: an entry whose only referencer is itself is classified as
\* an orphan: a completed report returns it, a completed archive or delete
\* run issues its rename or delete.
C20_SelfReferenceNotCounted ==
    (kind \in {"report", "archive", "delete"} /\ status = "Completed") =>
       \A i \in Ids :
          SelfOnly(i) =>
             IF kind = "report"
             THEN PathOf(start.assets, i) \in SeqToSet(unused_assets)
             ELSE \E c \in CallSet(calls) : c.id = i

\* C21: a batch loop whose repository calls all return starts Running over
\* its listing with nothing processed (at once Completed over an empty
\* listing), takes a step only while Running, and each step processes the
\* next item of the unchanged listing, one item per step, ending Running,
\* Completed or Cancelled; a terminal batch takes no further step; progress
\* advances by at most one per item and never exceeds the number of listed
\* items; a Completed batch has processed every item and advanced progress
\* once per item.
C21_BatchStateMachine ==
    [][(kind' \in BatchLoops /\ status' # "Failed") =>
          /\ runs' = runs + 1 =>
                /\ status' = IF Len(all_assets') > 0 THEN "Running" ELSE "Completed"
                /\ idx' = 0 /\ progress' = 0
          /\ runs' = runs =>
                /\ kind' = kind /\ status = "Running"
                /\ status' \in {"Running", "Completed", "Cancelled"}
                /\ all_assets' = all_assets
                /\ idx' = idx + 1
                /\ \A c \in NewCalls : c.at = idx'
                /\ progress' \in {progress, progress + 1}
          /\ idx' <= Len(all_assets') /\ progress' <= idx'
          /\ status' = "Running" => idx' < Len(all_assets')
          /\ status' = "Completed" =>
                idx' = Len(all_assets') /\ progress' = Len(all_assets')]_vars

\* C21 witness: a reorganize-by-type batch went over its whole listing, one
\* rename per item, and completed with progress advanced once per item.
C21_Witness ==
    /\ kind = "organize" /\ status = "Completed"
    /\ idx = MaxAssets /\ progress = MaxAssets
    /\ Len(calls) = MaxAssets
    /\ \A k \in 1..MaxAssets : calls[k].at = k

\* C22 as stated: when organize_assets_by_type is called on the folder
\* PROPS_PATH, every rename it issues has the target
\* PROPS_PATH/type_name/name of the renamed entry, and every listed entry is
\* still below PROPS_PATH.
C22_TargetUnderPassedRoot ==
    kind = "organize" =>
       /\ \A c \in CallSet(calls) :
             (c.op = "rename" /\ c.id # 0) =>
                c.to = [dir |-> PROPS_PATH \o <<start.assets[c.id].class>>,
                        name |-> start.assets[c.id].name]
       /\ \A k \in 1..Len(all_assets) :
             StartsWith(assets[IdAt(start.assets, all_assets[k])].dir, PROPS_PATH)

\* C23 as stated: no rename issued by orphan-archive or reorganize-by-type
\* has as its target the path the renamed entry is stored at (an entry is
\* renamed by its own item only, so that is its path when the run listed it).
C23_NoSelfRename ==
    kind \in {"archive", "organize"} =>
       \A c \in CallSet(calls) :
          (c.op = "rename" /\ c.id # 0) => c.to # PathOf(start.assets, c.id)

\* C24: every rename a prefix-rename step issues is for a stored entry whose
\* type has a prefix, and its target is the entry's own folder with the name
\* prefix, underscore, current name; when the host accepts it the entry is in
\* the same folder with the same type and a name that starts with the prefix
\* of its type, and when the host rejects it the entry is as it was.
C24_PrefixRenameTarget ==
    [][kind' = "prefix" =>
         \A c \in NewCalls :
            /\ c.op = "rename" /\ c.id \in Ids
            /\ assets[c.id].class \in DOMAIN PREFIXES
            /\ LET prefix == PREFIXES[assets[c.id].class]
                   new_name == prefix \o Underscore \o assets[c.id].name
               IN /\ c.to = [dir |-> assets[c.id].dir, name |-> new_name]
                  /\ c.ok => /\ assets'[c.id] = [assets[c.id] EXCEPT !.name = new_name]
                             /\ StartsWith(assets'[c.id].name, prefix)
                  /\ ~c.ok => assets'[c.id] = assets[c.id]]_vars

\* C24 witness: a prefix-rename run renamed a texture stored in a folder
\* below the content root; it is in that folder under its prefixed name.
C24_Witness ==
    /\ kind = "prefix"
    /\ \E c \in CallSet(calls) :
          /\ c.ok /\ c.to.dir = <<"Game", "Texture2D">>
          /\ start.assets[c.id].name = Rock
          /\ start.assets[c.id].class = "Texture2D"
          /\ assets[c.id].dir = <<"Game", "Texture2D">>
          /\ assets[c.id].name = TexRock
====
